---- MODULE Spec2Model ----
(***************************************************************************)
(* ExperimentEngine (src/src/engine.py): calculate_sample_size ("plan")    *)
(* and analyze_results ("analyze").                                        *)
(*                                                                         *)
(* Numbers are fixed point.  Probabilities (alpha, power, p-values) are    *)
(* integers in units of 1e-5, so 5000 is 0.05 and 100000 is 1.  A rounded  *)
(* value (round(x, 4)) is an integer in units of 1e-4.  An optional        *)
(* argument is a sequence of length 0 (None) or 1.  A float that may be    *)
(* NaN is a record [nan, v].                                               *)
(*                                                                         *)
(* The engine keeps no fields.  The variables are what a caller can        *)
(* observe: the last call (op, req, out), the number of records the        *)
(* module logger has emitted (logged), and the first analyze call (ref).   *)
(***************************************************************************)
EXTENDS Integers, Sequences, FiniteSets, TLC

VARIABLES op, req, out, logged, ref

vars == <<op, req, out, logged, ref>>

\* ------------------------------------------------------------ bounds
\* logger.error records the model lets accumulate
MaxLog == 2

\* ------------------------------------------------------------ values
None == <<>>

Some(x) == <<x>>

IsNone(o) == Len(o) = 0

Val(o) == o[1]

\* alpha: float = 0.05 (both signatures), in units of 1e-5
DefaultAlpha == 5000

\* power: float = 0.8, in units of 1e-5
DefaultPower == 80000

One == 100 * 1000

NaN == [nan |-> TRUE, v |-> 0]

Num(x) == [nan |-> FALSE, v |-> x]

Abs(x) == IF x < 0 THEN -x ELSE x

Sgn(x) == IF x < 0 THEN -1 ELSE IF x = 0 THEN 0 ELSE 1

\* round(x, 4) of a value held in units of 1e-5: the nearest multiple of
\* 1e-4, ties to even, returned in units of 1e-4
Round4(x) ==
    LET a == Abs(x)
        q == a \div 10
        r == a % 10
        m == IF r > 5 \/ (r = 5 /\ q % 2 = 1) THEN q + 1 ELSE q
    IN  Sgn(x) * m

\* ------------------------------------------- library: tail probabilities
\* floor(10 * |z|) from floor(100 * z^2), capped at the last table row
Tenths(sq100) ==
    IF sq100 >= 45 * 45 THEN 45
    ELSE CHOOSE k \in 0..44 : k * k <= sq100 /\ (k + 1) * (k + 1) > sq100

\* scipy.stats.norm.sf at |z| = 0.0, 0.1, ..., 4.5 (units of 1e-5)
NormTail ==
    << 50000, 46017, 42074, 38209, 34458, 30854, 27425, 24196, 21186, 18406,
       15866, 13567, 11507, 9680, 8076, 6681, 5480, 4457, 3593, 2872,
       2275, 1786, 1390, 1072, 820, 621, 466, 347, 256, 187,
       135, 97, 69, 48, 34, 23, 16, 11, 7, 5,
       3, 2, 1, 1, 1, 0 >>

\* Student t upper tail at |t| = 0.0, 0.1, ..., 4.5 for 198 degrees of
\* freedom (units of 1e-5).  Over the requests of this model a finite
\* non-zero t has between 99 and 198 degrees of freedom.
StudentTail ==
    << 50000, 46022, 42084, 38225, 34479, 30882, 27460, 24237, 21233, 18461,
       15927, 13633, 11579, 9756, 8154, 6760, 5560, 4535, 3669, 2944,
       2343, 1850, 1448, 1125, 866, 662, 501, 377, 281, 208,
       152, 111, 80, 57, 41, 29, 20, 14, 10, 7,
       4, 3, 2, 1, 1, 1 >>

\* A test statistic: NaN, +inf, -inf, or finite with its sign and
\* floor(100 * stat^2)
StatNaN == [kind |-> "nan", sgn |-> 0, sq100 |-> 0]

StatInf(s) == [kind |-> IF s > 0 THEN "posinf" ELSE "neginf", sgn |-> s, sq100 |-> 0]

StatFin(s, q) == [kind |-> "fin", sgn |-> s, sq100 |-> q]

\* the test run in the other direction (alternative='smaller')
LowerTail(stat, table) ==
    CASE stat.kind = "nan"    -> NaN
      [] stat.kind = "posinf" -> Num(One)
      [] stat.kind = "neginf" -> Num(0)
      [] OTHER ->
            LET t == table[Tenths(stat.sq100) + 1]
            IN  IF stat.sgn > 0 THEN Num(One - t)
                ELSE IF stat.sgn = 0 THEN Num(One \div 2)
                ELSE Num(t)

\* the one-sided upper-tail p-value of a statistic under a tabulated tail
UpperTail(stat, table) ==
    CASE stat.kind = "nan"    -> NaN
      [] stat.kind = "posinf" -> Num(0)
      [] stat.kind = "neginf" -> Num(One)
      [] OTHER ->
            LET t == table[Tenths(stat.sq100) + 1]
            IN  IF stat.sgn > 0 THEN Num(t)
                ELSE IF stat.sgn = 0 THEN Num(One \div 2)
                ELSE Num(One - t)

\* ------------------------------------------------ library: the two tests
\* statsmodels proportions_ztest(count, nobs, alternative='larger') on two
\* samples: prop = count / nobs, the pooled variance, z = diff / std_diff
\* and norm.sf(z).  numpy divides by zero into inf or nan without raising,
\* so a zero nobs or a zero pooled variance gives a NaN p-value.
proportions_ztest(count, nobs) ==
    LET x1 == count[1]
        x2 == count[2]
        n1 == nobs[1]
        n2 == nobs[2]
        X  == x1 + x2
        N  == n1 + n2
    IN  IF n1 = 0 \/ n2 = 0 THEN NaN
        ELSE
          LET prop1 == (1000 * x1) \div n1
              prop2 == (1000 * x2) \div n2
              diff  == prop1 - prop2
              p_pooled == (1000 * X) \div N
              pq    == p_pooled * (1000 - p_pooled)
          IN  IF pq <= 0 THEN NaN
              ELSE UpperTail(
                     StatFin(Sgn(diff),
                             (diff * diff * ((n1 * n2) \div N) * 100) \div pq),
                     NormTail)

\* std**2 / nobs as scipy's _unequal_var_ttest_denom computes it
VarOverN(std, nobs) ==
    IF nobs = 0 THEN (IF std = 0 THEN "nan" ELSE "inf") ELSE "fin"

\* vn**2 / (nobs - 1), a term of the Welch-Satterthwaite denominator
DfTerm(std, nobs) ==
    CASE nobs = 0 -> (IF std = 0 THEN "nan" ELSE "neginf")
      [] nobs = 1 -> (IF std = 0 THEN "nan" ELSE "inf")
      [] OTHER    -> "fin"

\* whether the Welch-Satterthwaite degrees of freedom come out 0: a finite
\* numerator over an infinite denominator.  A NaN is replaced by 1.
DfIsZero(std1, nobs1, std2, nobs2) ==
    LET t1 == DfTerm(std1, nobs1)
        t2 == DfTerm(std2, nobs2)
    IN  /\ VarOverN(std1, nobs1) = "fin"
        /\ VarOverN(std2, nobs2) = "fin"
        /\ t1 # "nan"
        /\ t2 # "nan"
        /\ (t1 = "inf" \/ t2 = "inf")

\* t = (mean1 - mean2) / sqrt(std1**2 / nobs1 + std2**2 / nobs2); means and
\* standard deviations are in tenths
WelchT(mean1, std1, nobs1, mean2, std2, nobs2) ==
    LET k1 == VarOverN(std1, nobs1)
        k2 == VarOverN(std2, nobs2)
        d  == mean1 - mean2
        den == std1 * std1 * nobs2 + std2 * std2 * nobs1
    IN  CASE k1 = "nan" \/ k2 = "nan" -> StatNaN
          [] k1 = "inf" \/ k2 = "inf" -> StatFin(0, 0)
          [] den = 0 -> (IF d = 0 THEN StatNaN ELSE StatInf(Sgn(d)))
          [] OTHER -> StatFin(Sgn(d), (d * d * nobs1 * nobs2 * 100) \div den)

\* scipy.stats.ttest_ind_from_stats(..., equal_var=False,
\* alternative='greater'): the p-value
ttest_ind_from_stats(mean1, std1, nobs1, mean2, std2, nobs2) ==
    LET t == WelchT(mean1, std1, nobs1, mean2, std2, nobs2)
    IN  IF t.kind = "nan" \/ DfIsZero(std1, nobs1, std2, nobs2) THEN NaN
        ELSE UpperTail(t, StudentTail)

\* ---------------------------------------------------------- analyze
\* what the body of the try block does: a result, or an exception
Result(sig, p, d) ==
    [kind |-> "result", is_significant |-> sig, p_nan |-> p.nan,
     p_value |-> IF p.nan THEN 0 ELSE Round4(p.v), observed_diff |-> Round4(d),
     error |-> ""]

Raise(e) ==
    [kind |-> "raise", is_significant |-> 0, p_nan |-> FALSE, p_value |-> 0,
     observed_diff |-> 0, error |-> e]

NoneOut(e) ==
    [kind |-> "None", is_significant |-> 0, p_nan |-> FALSE, p_value |-> 0,
     observed_diff |-> 0, error |-> e]

Has(kwargs, keys) == keys \subseteq DOMAIN kwargs

\* the verdict taken from the rounded p-value
VerdictOnRounded(p, alpha) == IF ~p.nan /\ Round4(p.v) * 10 < alpha THEN 1 ELSE 0

\* 1 if p_val < alpha else 0; a NaN compares false
Verdict(p, alpha) == IF ~p.nan /\ p.v < alpha THEN 1 ELSE 0

\* lines 102-106: the returned dictionary
Report(p, d, alpha) ==
    IF IsNone(alpha) THEN Raise("TypeError")
    ELSE Result(Verdict(p, Val(alpha)), p, d)

CrBranch(kw, alpha) ==
    IF ~Has(kw, {"variant_conv", "control_conv", "variant_n", "control_n"})
    THEN Raise("KeyError")
    ELSE
      LET p == proportions_ztest(<<kw.variant_conv, kw.control_conv>>,
                                 <<kw.variant_n, kw.control_n>>)
      IN  IF kw.variant_n = 0 \/ kw.control_n = 0
          THEN Raise("ZeroDivisionError")
          ELSE Report(p,
                      (One * kw.variant_conv) \div kw.variant_n
                        - (One * kw.control_conv) \div kw.control_n,
                      alpha)

EpcBranch(kw, alpha) ==
    IF ~Has(kw, {"v_mean", "v_std", "v_n", "c_mean", "c_std", "c_n"})
    THEN Raise("KeyError")
    ELSE
      LET p == ttest_ind_from_stats(kw.v_mean, kw.v_std, kw.v_n,
                                    kw.c_mean, kw.c_std, kw.c_n)
      IN  Report(p, (kw.v_mean - kw.c_mean) * (One \div 10), alpha)

TryBody(r) ==
    CASE r.sm_type = "cr"  -> CrBranch(r.kwargs, r.alpha)
      [] r.sm_type = "epc" -> EpcBranch(r.kwargs, r.alpha)
      [] OTHER             -> Raise("UnboundLocalError")

\* a handler that catches arithmetic errors only
ExceptArithmeticOnly(body) ==
    IF body.kind = "raise" /\ body.error = "ZeroDivisionError"
    THEN NoneOut(body.error)
    ELSE body

\* except Exception as e: logger.error(...); return None
Except(body) == IF body.kind = "raise" THEN NoneOut(body.error) ELSE body

\* a result cache keyed by the metric type alone
AnalyzeCached(r) ==
    IF op = "analyze" /\ req.sm_type = r.sm_type THEN out ELSE Except(TryBody(r))

analyze_results(r) == Except(TryBody(r))

\* ------------------------------------------------ library: power analysis
\* scipy.stats.norm.isf on tabulated tails (units of 1e-5) in hundredths;
\* a tail between two rows takes the row below it
IsfRows ==
    << <<50000, 0>>, <<40000, 25>>, <<30000, 52>>, <<20000, 84>>,
       <<10000, 128>>, <<5000, 164>>, <<2500, 196>>, <<1000, 233>>,
       <<500, 258>>, <<100, 309>> >>

NormIsfUpper(a) ==
    LET fit == {i \in 1..Len(IsfRows) : IsfRows[i][1] <= a}
    IN  IF fit = {} THEN IsfRows[Len(IsfRows)][2]
        ELSE IsfRows[CHOOSE i \in fit : \A j \in fit : i <= j][2]

NormIsf(a) == IF a > One \div 2 THEN -NormIsfUpper(One - a) ELSE NormIsfUpper(a)

\* 2 * arcsin(sqrt(p)) in thousandths, p in units of 1e-4
Arcsine2(p) ==
    CASE p = 100 -> 200
      [] p = 200 -> 284
      [] p = 210 -> 291
      [] p = 280 -> 336
      [] p = 300 -> 348

\* statsmodels proportion_effectsize(prop1, prop2), in thousandths
proportion_effectsize(prop1, prop2) == Arcsine2(prop1) - Arcsine2(prop2)

PlanRaise(e, m, s) ==
    [kind |-> "raise", error |-> e, msg |-> m, solver |-> s,
     control_sample_size |-> 0, variant_sample_size_per_variant |-> 0]

PlanSizes(c, v) ==
    [kind |-> "sizes", error |-> "", msg |-> "", solver |-> TRUE,
     control_sample_size |-> c, variant_sample_size_per_variant |-> v]

\* the control size n1 with Phi(d * sqrt(n1 * n2 / (n1 + n2)) - z_alpha) =
\* power and n2 = ratio * n1, in closed form:
\* n1 = (z_alpha + z_power)^2 * (1 + 1 / ratio) / d^2, as the fraction
\* <<numerator, denominator>>; ratio is rn / rd, d in thousandths.
\* <<0, 0>> stands for the division by zero at d = 0 or ratio = 0.
solve_nobs_two_indep(effect_size, alpha, power, rn, rd) ==
    LET A == NormIsf(alpha) + NormIsf(One - power)
    IN  IF effect_size = 0 \/ rn = 0 THEN <<0, 0>>
        ELSE <<A * A * 100 * (rn + rd), effect_size * effect_size * rn>>

\* int(np.ceil(a / b)) for a >= 0, b > 0
Ceil(a, b) == (a + b - 1) \div b

\* ------------------------------------------------------------- plan
\* the range check with its bounds included
RangeOkInclusive(power, alpha) ==
    0 <= power /\ power <= One /\ 0 <= alpha /\ alpha <= One

\* line 34
RangeOk(power, alpha) == 0 < power /\ power < One /\ 0 < alpha /\ alpha < One

\* lines 41-45: the default relative MDE per metric type, in percent
DefaultMde(sm_type) ==
    CASE sm_type = "cr"  -> Some(5)
      [] sm_type = "epc" -> Some(10)
      [] OTHER           -> None

\* lines 64-72: solve, then round both sizes up
SolveAndRound(effect_size, alpha, power, rn, rd) ==
    LET n == solve_nobs_two_indep(effect_size, alpha, power, rn, rd)
    IN  IF n[2] = 0 THEN PlanRaise("ZeroDivisionError", "", TRUE)
        ELSE PlanSizes(Ceil(n[1], n[2]), Ceil(n[1] * rn, n[2] * rd))

\* lines 47-72 without the check of std_dev_control
PlanWithMdeUnchecked(r, mde_relative) ==
    LET mde_absolute == (r.sm_control * mde_relative) \div 100
        adjusted_alpha == r.alpha \div r.num_variants
        rn == 10 - r.control_traffic_share
        rd == r.num_variants * r.control_traffic_share
    IN  IF rd = 0 THEN PlanRaise("ZeroDivisionError", "", FALSE)
        ELSE
        CASE r.sm_type = "cr" ->
               SolveAndRound(
                 proportion_effectsize(r.sm_control, r.sm_control + mde_absolute),
                 adjusted_alpha, r.power, rn, rd)
          [] r.sm_type = "epc" ->
               IF IsNone(r.std_dev_control)
               THEN PlanRaise("TypeError", "", FALSE)
               ELSE SolveAndRound(
                      (mde_absolute * 1000) \div Val(r.std_dev_control),
                      adjusted_alpha, r.power, rn, rd)
          [] OTHER -> PlanRaise("ValueError", "sm_type must be 'cr' or 'epc'", FALSE)

\* lines 47-72, with the relative MDE resolved
PlanWithMde(r, mde_relative) ==
    LET mde_absolute == (r.sm_control * mde_relative) \div 100
        adjusted_alpha == r.alpha \div r.num_variants
        rn == 10 - r.control_traffic_share
        rd == r.num_variants * r.control_traffic_share
    IN  IF rd = 0 THEN PlanRaise("ZeroDivisionError", "", FALSE)
        ELSE
        CASE r.sm_type = "cr" ->
               SolveAndRound(
                 proportion_effectsize(r.sm_control, r.sm_control + mde_absolute),
                 adjusted_alpha, r.power, rn, rd)
          [] r.sm_type = "epc" ->
               IF IsNone(r.std_dev_control) \/ Val(r.std_dev_control) = 0
               THEN PlanRaise("ValueError", "std_dev_control is required", FALSE)
               ELSE SolveAndRound(
                      (mde_absolute * 1000) \div Val(r.std_dev_control),
                      adjusted_alpha, r.power, rn, rd)
          [] OTHER -> PlanRaise("ValueError", "sm_type must be 'cr' or 'epc'", FALSE)

calculate_sample_size(r) ==
    IF ~RangeOk(r.power, r.alpha)
    THEN PlanRaise("ValueError", "Power and alpha must be between 0 and 1.", FALSE)
    ELSE IF r.num_variants = 0 THEN PlanRaise("ZeroDivisionError", "", FALSE)
    ELSE IF ~IsNone(r.mde_relative) THEN PlanWithMde(r, Val(r.mde_relative))
    ELSE IF IsNone(DefaultMde(r.sm_type))
    THEN PlanRaise("ValueError", "Unknown sm_type", FALSE)
    ELSE PlanWithMde(r, Val(DefaultMde(r.sm_type)))

\* ------------------------------------------------------------ requests
AlphaArgs == {None, Some(DefaultAlpha), Some(One \div 2), Some(8150), Some(24240)}

\* counts of a conversion-rate experiment
CrKwargs ==
    [control_n : {0, 1000}, control_conv : {0, 20, 100},
     variant_n : {0, 1000}, variant_conv : {0, 20, 100}]

\* summary statistics of a revenue experiment; means and standard
\* deviations in tenths
EpcKwargs ==
    [c_mean : {50}, c_std : {0, 10}, c_n : {0, 100},
     v_mean : {49, 50, 51, 52}, v_std : {0, 10}, v_n : {0, 1, 100}]

\* keyword sets that lack a field
PartialKwargs ==
    { [control_n |-> 1000, control_conv |-> 20, variant_n |-> 1000],
      [c_mean |-> 50, c_n |-> 100, v_mean |-> 50, v_std |-> 10, v_n |-> 100] }

KwargsFor(sm_type) ==
    CASE sm_type = "cr"  -> CrKwargs \cup PartialKwargs
      [] sm_type = "epc" -> EpcKwargs \cup PartialKwargs
      [] OTHER           -> PartialKwargs

AnalysisRequests ==
    UNION { [sm_type : {t}, alpha : AlphaArgs, kwargs : KwargsFor(t)] :
            t \in {"cr", "epc", "rpm"} }

\* sm_control is in units of 1e-4, control_traffic_share in tenths, the
\* relative MDE in percent
BaselineFor(sm_type) == IF sm_type = "epc" THEN 50000 ELSE 200

PlanRequests ==
    UNION { [sm_type : {t}, sm_control : {BaselineFor(t)},
             std_dev_control : {None, Some(10000)},
             mde_relative : {None, Some(-50), Some(0), Some(40), Some(50)},
             power : {0, DefaultPower, One},
             alpha : {-DefaultAlpha, 0, DefaultAlpha, One},
             control_traffic_share : {8, 10},
             num_variants : {1, 2}] :
            t \in {"cr", "epc", "rpm"} }

\* the requests of the interleaved specification
ProbeAnalyses ==
    { r \in AnalysisRequests :
        /\ r.alpha \in {None, Some(DefaultAlpha)}
        /\ \/ r.kwargs \in PartialKwargs
           \/ r.sm_type = "cr" /\ r.kwargs.control_conv = 20
                /\ r.kwargs.variant_conv = 100 /\ r.kwargs.control_n = 1000
           \/ r.sm_type = "epc" /\ r.kwargs.c_n = 100 /\ r.kwargs.v_n = 100
                /\ r.kwargs.v_std = r.kwargs.c_std /\ r.kwargs.v_mean \in {50, 52} }

ProbePlans ==
    { r \in PlanRequests :
        /\ r.alpha = DefaultAlpha
        /\ r.control_traffic_share = 8
        /\ r.num_variants = 1
        /\ r.mde_relative \in {None, Some(0)}
        /\ r.power \in {0, DefaultPower} }

\* ------------------------------------------------------------- actions
NoCall == [set |-> FALSE, req |-> <<>>, out |-> <<>>]

Init ==
    /\ op = "none"
    /\ req = <<>>
    /\ out = <<>>
    /\ logged = 0
    /\ ref = NoCall

\* one call of analyze_results; a failure emits one logger.error record.
\* With track, the first analyze call is kept in ref.
Analyze(r, track) ==
    LET o == analyze_results(r)
    IN  /\ o.kind = "None" => logged < MaxLog
        /\ op' = "analyze"
        /\ req' = r
        /\ out' = o
        /\ logged' = IF o.kind = "None" THEN logged + 1 ELSE logged
        /\ ref' = IF track /\ ~ref.set
                  THEN [set |-> TRUE, req |-> r, out |-> o]
                  ELSE ref

\* one call of calculate_sample_size; it logs nothing
Plan(r) ==
    /\ op' = "plan"
    /\ req' = r
    /\ out' = calculate_sample_size(r)
    /\ UNCHANGED <<logged, ref>>

AnalyzeAny == \E r \in AnalysisRequests : Analyze(r, FALSE)

PlanAny == \E r \in PlanRequests : Plan(r)

AnalyzeProbe == \E r \in ProbeAnalyses : Analyze(r, TRUE)

PlanProbe == \E r \in ProbePlans : Plan(r)

\* callers interleave both operations
Next == AnalyzeProbe \/ PlanProbe

Spec == Init /\ [][Next]_vars

\* every analysis request
SpecAnalyze == Init /\ [][AnalyzeAny]_vars

\* every planning request
SpecPlan == Init /\ [][PlanAny]_vars

\* ------------------------------------------------------------- claims
Analyzed == op = "analyze"

Planned == op = "plan"

\* the unrounded p-value the library hands to a request that reaches it
PValueOf(r) ==
    IF r.sm_type = "cr"
    THEN proportions_ztest(<<r.kwargs.variant_conv, r.kwargs.control_conv>>,
                           <<r.kwargs.variant_n, r.kwargs.control_n>>)
    ELSE ttest_ind_from_stats(r.kwargs.v_mean, r.kwargs.v_std, r.kwargs.v_n,
                              r.kwargs.c_mean, r.kwargs.c_std, r.kwargs.c_n)

\* the sign of variant minus control, unrounded
DiffSign(r) ==
    IF r.sm_type = "cr"
    THEN Sgn(r.kwargs.variant_conv * r.kwargs.control_n
               - r.kwargs.control_conv * r.kwargs.variant_n)
    ELSE Sgn(r.kwargs.v_mean - r.kwargs.c_mean)

\* C1: analyze never raises to the caller: every call ends with a result
\* or with None, every exception raised in the try block ends in None, and
\* each None comes with a logged record.
C1_NeverRaises ==
    Analyzed =>
        /\ out.kind \in {"result", "None"}
        /\ TryBody(req).kind = "raise" => out.kind = "None"
        /\ out.kind = "None" => logged > 0
        /\ out.kind = "result" => out.is_significant \in {0, 1}

\* C1 witness: a conversion-rate call that lacks a field ended in None
C1_Witness ==
    /\ Analyzed
    /\ req.sm_type = "cr"
    /\ req.kwargs \in PartialKwargs
    /\ out.kind = "None"
    /\ out.error = "KeyError"

\* an observation count of zero in either arm
ZeroCount(r) ==
    \/ r.sm_type = "cr"  /\ r.kwargs \in CrKwargs
         /\ (r.kwargs.control_n = 0 \/ r.kwargs.variant_n = 0)
    \/ r.sm_type = "epc" /\ r.kwargs \in EpcKwargs
         /\ (r.kwargs.c_n = 0 \/ r.kwargs.v_n = 0)

\* both standard deviations zero and equal means
FlatEpc(r) ==
    /\ r.sm_type = "epc"
    /\ r.kwargs \in EpcKwargs
    /\ r.kwargs.c_std = 0
    /\ r.kwargs.v_std = 0
    /\ r.kwargs.c_mean = r.kwargs.v_mean

\* C2: whenever the test statistic is undefined (a zero observation count,
\* both standard deviations zero with equal means, or a NaN p-value)
\* analyze returns None and never a result.
C2_UndefinedIsFailure ==
    Analyzed /\ out.kind = "result" =>
        /\ ~out.p_nan
        /\ ~ZeroCount(req)
        /\ ~FlatEpc(req)

\* C3: in every result is_significant is 1 exactly when the unrounded
\* p-value is strictly below alpha, and p_value is that p-value rounded to
\* 4 decimals; the rounding does not enter the verdict.
C3_VerdictFromUnrounded ==
    Analyzed /\ out.kind = "result" =>
        LET p == PValueOf(req)
        IN  /\ out.is_significant = 1 <=> (~p.nan /\ p.v < Val(req.alpha))
            /\ ~p.nan => out.p_value = Round4(p.v)

\* C3 witness: the unrounded p-value is below alpha, its rounded value
\* equals alpha, and the verdict is 1
C3_Witness ==
    /\ Analyzed
    /\ out.kind = "result"
    /\ ~out.p_nan
    /\ PValueOf(req).v < Val(req.alpha)
    /\ out.p_value * 10 = Val(req.alpha)
    /\ out.is_significant = 1

\* C4: plan raises ValueError, with the power/alpha message and before the
\* solver, whenever power or alpha is not strictly inside (0, 1), whatever
\* the other arguments are.
C4_RangeChecked ==
    Planned /\ ~(0 < req.power /\ req.power < One
                 /\ 0 < req.alpha /\ req.alpha < One) =>
        /\ out.kind = "raise"
        /\ out.error = "ValueError"
        /\ out.msg = "Power and alpha must be between 0 and 1."
        /\ ~out.solver

\* C4 witness: power = 1 on a request whose metric type is unknown too
C4_Witness ==
    /\ Planned
    /\ req.power = One
    /\ req.alpha = DefaultAlpha
    /\ req.sm_type = "rpm"
    /\ out.error = "ValueError"

InRange(r) == 0 < r.power /\ r.power < One /\ 0 < r.alpha /\ r.alpha < One

\* C5: with power and alpha in range, plan raises ValueError for a metric
\* type that is neither 'cr' nor 'epc' and for 'epc' without a standard
\* deviation, with or without a relative MDE; for 'cr' the missing standard
\* deviation changes nothing.
C5_MetricModelChecked ==
    Planned /\ InRange(req) =>
        /\ req.sm_type \notin {"cr", "epc"} =>
             out.kind = "raise" /\ out.error = "ValueError" /\ ~out.solver
        /\ req.sm_type = "epc" /\ IsNone(req.std_dev_control) =>
             /\ out.kind = "raise"
             /\ out.error = "ValueError"
             /\ out.msg = "std_dev_control is required"
        /\ req.sm_type = "cr" =>
             /\ out.msg # "std_dev_control is required"
             /\ out.kind = "raise" => out.solver

\* C5 witness: 'epc' with a relative MDE and no standard deviation
C5_Witness ==
    /\ Planned
    /\ InRange(req)
    /\ req.sm_type = "epc"
    /\ IsNone(req.std_dev_control)
    /\ ~IsNone(req.mde_relative)
    /\ out.error = "ValueError"

\* everything but the relative MDE is valid
ValidButMde(r) ==
    /\ InRange(r)
    /\ r.sm_type \in {"cr", "epc"}
    /\ r.sm_type = "epc" => ~IsNone(r.std_dev_control)
    /\ r.control_traffic_share \in 1..10
    /\ r.num_variants >= 1

\* C6: a supplied relative MDE <= 0, all else valid, makes plan raise
\* ValueError without calling the solver.
C6_NonPositiveMdeRejected ==
    Planned /\ ValidButMde(req) /\ ~IsNone(req.mde_relative)
            /\ Val(req.mde_relative) <= 0 =>
        /\ out.kind = "raise"
        /\ out.error = "ValueError"
        /\ ~out.solver

ValidPlan(r) ==
    /\ ValidButMde(r)
    /\ IsNone(r.mde_relative) \/ Val(r.mde_relative) > 0

\* C7: every valid request (control traffic share up to and including 1)
\* returns two positive sizes, the variant size within 1 + ratio of
\* control_sample_size * ratio.
C7_PositiveSizes ==
    Planned /\ ValidPlan(req) =>
        LET rn == 10 - req.control_traffic_share
            rd == req.num_variants * req.control_traffic_share
        IN  /\ out.kind = "sizes"
            /\ out.control_sample_size > 0
            /\ out.variant_sample_size_per_variant > 0
            /\ Abs(out.variant_sample_size_per_variant * rd
                     - out.control_sample_size * rn) < rn + rd

\* C8: of two consecutive valid requests that differ only in a relative
\* MDE, the second one's smaller, and that both return sizes, the second
\* returns a strictly larger control size and a strictly larger variant
\* size.
C8_StrictlyMonotone ==
    [][ (/\ Planned
         /\ op' = "plan"
         /\ ValidPlan(req)
         /\ ValidPlan(req')
         /\ ~IsNone(req.mde_relative)
         /\ ~IsNone(req'.mde_relative)
         /\ req' = [req EXCEPT !.mde_relative = req'.mde_relative]
         /\ Val(req'.mde_relative) < Val(req.mde_relative)
         /\ out.kind = "sizes"
         /\ out'.kind = "sizes")
        => /\ out'.control_sample_size > out.control_sample_size
           /\ out'.variant_sample_size_per_variant
                > out.variant_sample_size_per_variant ]_vars

====
